---- MODULE Spec2Model ----
(***************************************************************************)
(* db_backup.py: scheduled dump of a database, staged into a local         *)
(* directory and onto a remote host over SFTP, pruned by a daily / weekly  *)
(* / monthly retention count.                                              *)
(*                                                                         *)
(* A Python str is modelled as the sequence of its characters, each a      *)
(* one-character string, so that split, join, the substring test and the   *)
(* comparison of list.sort are computed as Python computes them.           *)
(***************************************************************************)
EXTENDS Integers, Sequences, FiniteSets, TLC

(***************************************************************************)
(* Python str primitives                                                   *)
(***************************************************************************)

\* ord(c) for the characters that occur in file names here.
Ord(c) ==
    CASE c = " " -> 32 [] c = "+" -> 43 [] c = "-" -> 45 [] c = "." -> 46
      [] c = "0" -> 48 [] c = "1" -> 49 [] c = "2" -> 50 [] c = "3" -> 51
      [] c = "4" -> 52 [] c = "5" -> 53 [] c = "6" -> 54 [] c = "7" -> 55
      [] c = "8" -> 56 [] c = "9" -> 57
      [] c = "A" -> 65 [] c = "D" -> 68 [] c = "E" -> 69 [] c = "H" -> 72
      [] c = "I" -> 73 [] c = "K" -> 75 [] c = "L" -> 76 [] c = "M" -> 77
      [] c = "N" -> 78 [] c = "O" -> 79 [] c = "T" -> 84 [] c = "W" -> 87
      [] c = "X" -> 88 [] c = "Y" -> 89
      [] c = "_" -> 95
      [] c = "a" -> 97 [] c = "b" -> 98 [] c = "d" -> 100 [] c = "e" -> 101
      [] c = "l" -> 108 [] c = "m" -> 109 [] c = "n" -> 110 [] c = "o" -> 111
      [] c = "q" -> 113 [] c = "s" -> 115 [] c = "t" -> 116 [] c = "z" -> 122

\* s < t for two str: the first differing character decides, a proper prefix
\* is smaller.
StrLess(s, t) ==
    LET n == IF Len(s) < Len(t) THEN Len(s) ELSE Len(t)
        differ == {i \in 1..n : s[i] # t[i]}
    IN IF differ = {} THEN Len(s) < Len(t)
       ELSE LET first == CHOOSE i \in differ : \A j \in differ : i <= j
            IN Ord(s[first]) < Ord(t[first])

\* sub in s
StrContains(s, sub) ==
    \E i \in 0..(Len(s) - Len(sub)) : SubSeq(s, i + 1, i + Len(sub)) = sub

\* s.split(sep) for a one-character sep: the text between consecutive
\* separators, so always at least one field.
RECURSIVE FieldsFrom(_, _, _)
FieldsFrom(s, cuts, from) ==
    IF cuts = {} THEN <<SubSeq(s, from, Len(s))>>
    ELSE LET cut == CHOOSE i \in cuts : \A j \in cuts : i <= j
         IN <<SubSeq(s, from, cut - 1)>> \o FieldsFrom(s, cuts \ {cut}, cut + 1)

StrSplit(s, sep) == FieldsFrom(s, {i \in 1..Len(s) : s[i] = sep}, 1)

\* sep.join(fields)
RECURSIVE StrJoin(_, _)
StrJoin(fields, sep) ==
    IF fields = <<>> THEN <<>>
    ELSE IF Len(fields) = 1 THEN fields[1]
    ELSE fields[1] \o <<sep>> \o StrJoin(Tail(fields), sep)

\* list.sort() on a list of str: ascending, equal elements keep their order.
RECURSIVE InsertSorted(_, _)
InsertSorted(x, sorted) ==
    IF sorted = <<>> THEN <<x>>
    ELSE IF StrLess(x, Head(sorted)) THEN <<x>> \o sorted
    ELSE <<Head(sorted)>> \o InsertSorted(x, Tail(sorted))

\* A sort that leaves the list as it is.
SortStrsKeepsOrder(l) == l

RECURSIVE SortStrs(_)
SortStrs(l) ==
    IF l = <<>> THEN <<>>
    ELSE InsertSorted(l[Len(l)], SortStrs(SubSeq(l, 1, Len(l) - 1)))

(***************************************************************************)
(* datetime.date, for the days of 2024 (day 1 is Monday 2024-01-01)        *)
(***************************************************************************)

MonthLengths == <<31, 29, 31, 30, 31, 30, 31, 31, 30, 31, 30, 31>>

RECURSIVE MonthFrom(_, _)
MonthFrom(n, m) ==
    IF n <= MonthLengths[m] THEN m ELSE MonthFrom(n - MonthLengths[m], m + 1)

RECURSIVE DayFrom(_, _)
DayFrom(n, m) ==
    IF n <= MonthLengths[m] THEN n ELSE DayFrom(n - MonthLengths[m], m + 1)

\* date.month, date.day and date.weekday() (Monday is 0, Sunday is 6)
MonthOf(n) == MonthFrom(n, 1)
DayOf(n) == DayFrom(n, 1)
Weekday(n) == (n - 1) % 7

Digit(k) == <<"0", "1", "2", "3", "4", "5", "6", "7", "8", "9">>[k + 1]

\* strftime("%m"), strftime("%d"): two digits, zero padded
Strf2(k) == <<Digit(k \div 10), Digit(k % 10)>>

\* today.strftime('%Y-%m-%d')
StrfDate(n) == <<"2", "0", "2", "4", "-">> \o Strf2(MonthOf(n)) \o <<"-">> \o Strf2(DayOf(n))

(***************************************************************************)
(* db_bkp._bookkeeping                                                     *)
(***************************************************************************)

\* self._make_weekly = today.weekday()==6
MakeWeekly(n) == Weekday(n) = 6

\* self._make_monthly = today.strftime("%d")=="01"
MakeMonthly(n) == Strf2(DayOf(n)) = <<"0", "1">>

\* '-'.join(sorted(self._databases.split(" ")))
GroupKey(dbs) == StrJoin(SortStrs(StrSplit(dbs, " ")), "-")

\* self._filename = f"{'-'.join(databases)}_{today.strftime('%Y-%m-%d')}.sql"
Filename(dbs, n) == GroupKey(dbs) \o <<"_">> \o StrfDate(n) \o <<".", "s", "q", "l">>

DAILY == <<"D", "A", "I", "L", "Y">>
WEEKLY == <<"W", "E", "E", "K", "L", "Y">>
MONTHLY == <<"M", "O", "N", "T", "H", "L", "Y">>

\* f"DAILY_{self._filename}", f"WEEKLY_{self._filename}", f"MONTHLY_{self._filename}"
TierFile(tier, dbs, n) == tier \o <<"_">> \o Filename(dbs, n)

(***************************************************************************)
(* db_bkp.manage_files                                                     *)
(***************************************************************************)

Range(s) == {s[i] : i \in 1..Len(s)}

Perms(S) == {p \in [1..Cardinality(S) -> S] : Range(p) = S}

\* [_.split('_') for _ in file_list]
RECURSIVE SplitRows(_)
SplitRows(file_list) ==
    IF file_list = <<>> THEN <<>>
    ELSE <<StrSplit(Head(file_list), "_")>> \o SplitRows(Tail(file_list))

\* len(list(zip(*rows))): zip stops at the shortest row, and yields nothing
\* for no rows at all.
ZipWidth(rows) ==
    IF rows = <<>> THEN 0
    ELSE CHOOSE w \in {Len(rows[i]) : i \in 1..Len(rows)} :
            \A i \in 1..Len(rows) : w <= Len(rows[i])

\* X, Y, Z = zip(...) raises ValueError unless zip yields exactly three tuples.
UnpackRaises(file_list) == ZipWidth(SplitRows(file_list)) # 3

\* set(Y)
GroupSet(file_list) == {row[2] : row \in Range(SplitRows(file_list))}

\* ['_'.join([x1,x2,x3]) for x1,x2,x3 in zip(X,Y,Z) if x2 == y]
RECURSIVE GroupFiles(_, _)
GroupFiles(rows, y) ==
    IF rows = <<>> THEN <<>>
    ELSE LET r == Head(rows)
             rest == GroupFiles(Tail(rows), y)
         IN IF r[2] = y THEN <<StrJoin(<<r[1], r[2], r[3]>>, "_")>> \o rest ELSE rest

\* [_ for _ in file_list if "DAILY" in _]
RECURSIVE TierFilter(_, _)
TierFilter(files, token) ==
    IF files = <<>> THEN <<>>
    ELSE IF StrContains(Head(files), token)
         THEN <<Head(files)>> \o TierFilter(Tail(files), token)
         ELSE TierFilter(Tail(files), token)

\* A prune whose loop stops one entry early (while len(backup_list) > n + 1).
PruneDroppedStopsEarly(backup_list, n) ==
    IF n < 0 THEN backup_list
    ELSE IF Len(backup_list) > n + 1 THEN SubSeq(backup_list, 1, Len(backup_list) - n - 1)
    ELSE <<>>

\* prune(backup_list, n): what the loop appends to self._drop_list. With n < 0
\* the loop empties the list and then pops from the empty list.
PruneDropped(backup_list, n) ==
    IF n < 0 THEN backup_list
    ELSE IF Len(backup_list) > n THEN SubSeq(backup_list, 1, Len(backup_list) - n)
    ELSE <<>>

PruneRaises(backup_list, n) == n < 0

\* prune(daily_backups, ...); prune(weekly_backups, ...); prune(monthly_backups,
\* ...): a raising call ends the method with what was appended so far.
PruneTiers(daily, weekly, monthly, counts) ==
    IF PruneRaises(daily, counts.DLY_BACKUP_COUNT)
    THEN [raised |-> TRUE, drop |-> PruneDropped(daily, counts.DLY_BACKUP_COUNT)]
    ELSE IF PruneRaises(weekly, counts.WLY_BACKUP_COUNT)
    THEN [raised |-> TRUE,
          drop |-> PruneDropped(daily, counts.DLY_BACKUP_COUNT)
                   \o PruneDropped(weekly, counts.WLY_BACKUP_COUNT)]
    ELSE [raised |-> PruneRaises(monthly, counts.MLY_BACKUP_COUNT),
          drop |-> PruneDropped(daily, counts.DLY_BACKUP_COUNT)
                   \o PruneDropped(weekly, counts.WLY_BACKUP_COUNT)
                   \o PruneDropped(monthly, counts.MLY_BACKUP_COUNT)]

\* The body of the loop for one y: the files of the group, split by tier with
\* the substring test, each list sorted and pruned.
TierLists(files, counts) ==
    PruneTiers(SortStrs(TierFilter(files, DAILY)),
               SortStrs(TierFilter(files, WEEKLY)),
               SortStrs(TierFilter(files, MONTHLY)),
               counts)

GroupPrune(rows, y, counts) == TierLists(GroupFiles(rows, y), counts)

\* for y in set(Y): ..., with the set iterated in the order yOrder.
RECURSIVE GroupLoop(_, _, _, _)
ContinueLoop(rows, yOrder, counts, dropped, g) ==
    IF g.raised THEN [raised |-> TRUE, drop |-> dropped \o g.drop]
    ELSE GroupLoop(rows, Tail(yOrder), counts, dropped \o g.drop)

GroupLoop(rows, yOrder, counts, dropped) ==
    IF yOrder = <<>> THEN [raised |-> FALSE, drop |-> dropped]
    ELSE ContinueLoop(rows, yOrder, counts, dropped, GroupPrune(rows, Head(yOrder), counts))

\* manage_files(file_list): whether it raises, and self._drop_list when it ends.
\* A ValueError at the unpacking leaves before self._drop_list is assigned.
manage_files(file_list, yOrder, counts) ==
    IF UnpackRaises(file_list) THEN [raised |-> TRUE, drop |-> <<>>]
    ELSE GroupLoop(SplitRows(file_list), yOrder, counts, <<>>)


(***************************************************************************)
(* Bounds and the inputs drawn from them                                   *)
(***************************************************************************)

\* Largest retention count configured.
MaxCount == 1

\* Number of names in a listing handed to the retention computation alone.
MaxLen == 3

\* Listings of up to this many names are returned in every order.
MaxPermLen == 3

\* int(float(v)) of the configured counts: whole numbers, which argparse and
\* the environment pass through unchecked, negative ones included.
CountRange == {0 - 1} \cup (0..MaxCount)

Policies ==
    [DLY_BACKUP_COUNT : CountRange, WLY_BACKUP_COUNT : CountRange, MLY_BACKUP_COUNT : CountRange]

\* The days the program is run on: Sat 2024-06-29, Sun 2024-06-30,
\* Mon 2024-07-01 and Sun 2024-09-01.
RunDays == {181, 182, 183, 245}

\* --databases: "b a" and "m_d"
DatabaseChoices == {<<"b", " ", "a">>, <<"m", "_", "d">>}

SQL == <<".", "s", "q", "l">>

\* What a directory may hold before a run: artifacts of earlier days and files
\* that are none of this program's.
OldAB(tier, n) == TierFile(tier, <<"a", " ", "b">>, n)
OldB(tier, n) == TierFile(tier, <<"b">>, n)
Notes == <<"n", "o", "t", "e", "s">>

SeedDirs ==
    { {},
      {OldAB(DAILY, 181)},
      {OldAB(DAILY, 179), OldAB(DAILY, 180), OldB(DAILY, 180)},
      {OldAB(DAILY, 180), Notes} }

RemoteSeedDirs ==
    { {},
      {OldAB(DAILY, 179), OldAB(DAILY, 180), OldB(DAILY, 180)} }

(***************************************************************************)
(* State                                                                   *)
(***************************************************************************)

VARIABLES
    databases,      \* self._databases
    backup_counts,  \* self._backup_counts
    skip_local,     \* self._skip_local: "unset", or "true" / "false" once assigned
    skip_remote,    \* self._skip_remote
    today,          \* date.today(), as the day of 2024
    pc,             \* where main is
    dump,           \* how mysqldump ended: "none", "ok", "stderr", "status", "hang"
    local_dir,      \* the names in self._dir_local
    remote_dir,     \* the names in self._dir_remote
    fresh,          \* per backend, the files that hold this run's self.stdout
    drop_list,      \* self._drop_list
    session,        \* the SSH client / SFTP channel: "none", "open", "closed"
    hist,           \* what this run has done so far (for the properties)
    mf,             \* position of the retention computation run on its own
    prev_drop       \* the drop list of its first call

vars == <<databases, backup_counts, skip_local, skip_remote, today, pc, dump,
          local_dir, remote_dir, fresh, drop_list, session, hist, mf, prev_drop>>

config == <<databases, backup_counts, skip_local, skip_remote>>

NoSets == [local |-> {}, remote |-> {}]

HistInit ==
    [ ops |-> {},            \* backend operations attempted: <<backend, operation>>
      written |-> NoSets,    \* names written per backend
      staged |-> [local |-> "no", remote |-> "no"],  \* staging: "no", "ok", "failed"
      pruning |-> [local |-> "no", remote |-> "no"], \* pruning: "no", "ok", "failed"
      drop_set |-> NoSets,   \* the names of the drop list manage_files returned
      tried |-> NoSets,      \* the names a delete was attempted for
      stale |-> {},          \* names uploaded with another content than self.stdout
      fault |-> FALSE,       \* an operation of a backend failed by itself
      run |-> 1,             \* which invocation of the program this is
      first |-> NoSets ]     \* the directories as the first invocation left them

\* os.listdir / sftp.listdir give the names in no particular order.
RECURSIVE Ascending(_)
Ascending(S) ==
    IF S = {} THEN <<>>
    ELSE LET least == CHOOSE x \in S : \A y \in S \ {x} : StrLess(x, y)
         IN <<least>> \o Ascending(S \ {least})

RECURSIVE Reverse(_)
Reverse(s) == IF s = <<>> THEN <<>> ELSE Append(Reverse(Tail(s)), Head(s))

ListDir(dir) ==
    IF Cardinality(dir) <= MaxPermLen THEN Perms(dir)
    ELSE {Ascending(dir), Reverse(Ascending(dir))}

\* The orders in which set(Y) may be iterated.
GroupOrders(file_list) ==
    IF UnpackRaises(file_list) THEN {<<>>} ELSE Perms(GroupSet(file_list))


(***************************************************************************)
(* main: one run of the program                                            *)
(***************************************************************************)

Did(h, backend, op) == [h EXCEPT !.ops = @ \cup {<<backend, op>>}]

\* An uncaught exception ends the process.
Raise == pc' = "failed"

\* read_db: communicate() waits for mysqldump without a time limit, and only
\* a non-empty stderr raises; the exit status is never read.
ReadDbRaises(outcome) == outcome = "stderr"

read_db ==
    /\ pc = "read_db"
    /\ \E outcome \in {"ok", "stderr", "status", "hang"} :
          /\ dump' = outcome
          /\ pc' = IF outcome = "hang" THEN "hung"
                   ELSE IF ReadDbRaises(outcome) THEN "failed"
                   ELSE "l_enter"
    /\ UNCHANGED <<config, today, local_dir, remote_dir, fresh, drop_list, session,
                   hist, mf, prev_drop>>

\* dump_local, line 255: no code assigns self._skip_local, so reading it raises
\* AttributeError unless the caller has assigned it.
LocalEnterNext ==
    IF skip_local = "unset" THEN "failed"
    ELSE IF skip_local = "true" THEN "r_enter"
    ELSE "l_daily"

dump_local_enter ==
    /\ pc = "l_enter"
    /\ pc' = LocalEnterNext
    /\ hist' = IF skip_local = "unset"
               THEN [hist EXCEPT !.staged.local = "failed"]
               ELSE hist
    /\ UNCHANGED <<config, today, dump, local_dir, remote_dir, fresh, drop_list,
                   session, mf, prev_drop>>

\* Whether dump_local writes the file of a tier today.
LocalWrites(tier, n) ==
    \/ tier = DAILY
    \/ tier = WEEKLY /\ MakeWeekly(n)
    \/ tier = MONTHLY /\ MakeMonthly(n)

LocalStep(tier) ==
    IF tier = DAILY THEN "l_daily" ELSE IF tier = WEEKLY THEN "l_weekly" ELSE "l_monthly"

LocalAfter(tier) ==
    IF tier = DAILY THEN "l_weekly" ELSE IF tier = WEEKLY THEN "l_monthly" ELSE "l_list"

\* with open(f,'w') as f: f.writelines(self.stdout)
dump_local_write(tier) ==
    /\ pc = LocalStep(tier)
    /\ \E name \in {TierFile(tier, databases, today)} :
          \/ /\ LocalWrites(tier, today)
             /\ local_dir' = local_dir \cup {name}
             /\ fresh' = [fresh EXCEPT !.local = @ \cup {name}]
             /\ hist' = [Did(hist, "local", "write") EXCEPT
                            !.written.local = @ \cup {name},
                            !.staged.local = IF tier = MONTHLY THEN "ok" ELSE @]
             /\ pc' = LocalAfter(tier)
          \/ /\ LocalWrites(tier, today)
             /\ Raise
             /\ hist' = [Did(hist, "local", "write") EXCEPT
                            !.staged.local = "failed", !.fault = TRUE]
             /\ UNCHANGED <<local_dir, fresh>>
          \/ /\ ~LocalWrites(tier, today)
             /\ pc' = LocalAfter(tier)
             /\ hist' = [hist EXCEPT !.staged.local = IF tier = MONTHLY THEN "ok" ELSE @]
             /\ UNCHANGED <<local_dir, fresh>>
    /\ UNCHANGED <<config, today, dump, remote_dir, drop_list, session, mf, prev_drop>>

\* self.manage_files(os.listdir(self._dir_local))
dump_local_list ==
    /\ pc = "l_list"
    /\ \/ /\ Raise
          /\ hist' = [Did(hist, "local", "list") EXCEPT
                         !.pruning.local = "failed", !.fault = TRUE]
          /\ UNCHANGED drop_list
       \/ \E file_list \in ListDir(local_dir) : \E yOrder \in GroupOrders(file_list) :
             \E r \in {manage_files(file_list, yOrder, backup_counts)} :
                /\ drop_list' = r.drop
                /\ pc' = IF r.raised THEN "failed" ELSE "l_prune"
                /\ hist' = [Did(hist, "local", "list") EXCEPT
                               !.drop_set.local = Range(r.drop),
                               !.pruning.local = IF r.raised THEN "failed" ELSE @]
    /\ UNCHANGED <<config, today, dump, local_dir, remote_dir, fresh, session,
                   mf, prev_drop>>

\* fl = self._drop_list.pop()
PopTarget(list) == list[Len(list)]
PopRest(list) == SubSeq(list, 1, Len(list) - 1)

\* while self._drop_list: ... os.remove(fl)
dump_local_remove ==
    /\ pc = "l_prune"
    /\ IF drop_list = <<>>
       THEN /\ pc' = "r_enter"
            /\ hist' = [hist EXCEPT !.pruning.local = "ok"]
            /\ UNCHANGED <<drop_list, local_dir, fresh>>
       ELSE LET fl == PopTarget(drop_list)
                h == [Did(hist, "local", "remove") EXCEPT !.tried.local = @ \cup {fl}]
            IN /\ drop_list' = PopRest(drop_list)
               /\ \/ /\ fl \in local_dir
                     /\ local_dir' = local_dir \ {fl}
                     /\ fresh' = [fresh EXCEPT !.local = @ \ {fl}]
                     /\ hist' = h
                     /\ UNCHANGED pc
                  \/ /\ Raise
                     /\ hist' = [h EXCEPT !.pruning.local = "failed",
                                          !.fault = @ \/ fl \in local_dir]
                     /\ UNCHANGED <<local_dir, fresh>>
    /\ UNCHANGED <<config, today, dump, remote_dir, session, mf, prev_drop>>

\* dump_remote, line 298, and print("Backups Complete") when it returns at once
dump_remote_enter ==
    /\ pc = "r_enter"
    /\ pc' = IF skip_remote THEN "done" ELSE "r_connect"
    /\ UNCHANGED <<config, today, dump, local_dir, remote_dir, fresh, drop_list,
                   session, hist, mf, prev_drop>>

\* client.connect(...); sftp = client.open_sftp()
dump_remote_connect ==
    /\ pc = "r_connect"
    /\ \/ /\ session' = "open"
          /\ pc' = "r_daily"
          /\ hist' = Did(hist, "remote", "connect")
       \/ /\ Raise
          /\ hist' = [Did(hist, "remote", "connect") EXCEPT
                         !.staged.remote = "failed", !.fault = TRUE]
          /\ UNCHANGED session
       \/ /\ session' = "open"
          /\ Raise
          /\ hist' = [Did(hist, "remote", "connect") EXCEPT
                         !.staged.remote = "failed", !.fault = TRUE]
    /\ UNCHANGED <<config, today, dump, local_dir, remote_dir, fresh, drop_list,
                   mf, prev_drop>>

RemoteStep(tier) ==
    IF tier = DAILY THEN "r_daily" ELSE IF tier = WEEKLY THEN "r_weekly" ELSE "r_monthly"

RemoteAfter(tier) ==
    IF tier = DAILY THEN "r_weekly" ELSE IF tier = WEEKLY THEN "r_monthly" ELSE "r_list"

\* sftp.put(f_l, f_r) inside try / except: raise Exception(...), for each of
\* the three tiers whatever the day is. The put reads the local file, and
\* raises when there is none.
dump_remote_put(tier) ==
    /\ pc = RemoteStep(tier)
    /\ \E name \in {TierFile(tier, databases, today)} :
          \/ /\ name \in local_dir
             /\ remote_dir' = remote_dir \cup {name}
             /\ fresh' = [fresh EXCEPT !.remote =
                             IF name \in fresh.local THEN @ \cup {name} ELSE @ \ {name}]
             /\ hist' = [Did(hist, "remote", "put") EXCEPT
                            !.written.remote = @ \cup {name},
                            !.stale = IF name \in fresh.local THEN @ ELSE @ \cup {name},
                            !.staged.remote = IF tier = MONTHLY THEN "ok" ELSE @]
             /\ pc' = RemoteAfter(tier)
          \/ /\ Raise
             /\ hist' = [Did(hist, "remote", "put") EXCEPT
                            !.staged.remote = "failed",
                            !.fault = @ \/ name \in local_dir]
             /\ UNCHANGED <<remote_dir, fresh>>
    /\ UNCHANGED <<config, today, dump, local_dir, drop_list, session, mf, prev_drop>>

\* self.manage_files(sftp.listdir(self._dir_remote))
dump_remote_list ==
    /\ pc = "r_list"
    /\ \/ /\ Raise
          /\ hist' = [Did(hist, "remote", "list") EXCEPT
                         !.pruning.remote = "failed", !.fault = TRUE]
          /\ UNCHANGED drop_list
       \/ \E file_list \in ListDir(remote_dir) : \E yOrder \in GroupOrders(file_list) :
             \E r \in {manage_files(file_list, yOrder, backup_counts)} :
                /\ drop_list' = r.drop
                /\ pc' = IF r.raised THEN "failed" ELSE "r_prune"
                /\ hist' = [Did(hist, "remote", "list") EXCEPT
                               !.drop_set.remote = Range(r.drop),
                               !.pruning.remote = IF r.raised THEN "failed" ELSE @]
    /\ UNCHANGED <<config, today, dump, local_dir, remote_dir, fresh, session,
                   mf, prev_drop>>

\* while self._drop_list: ... sftp.remove(fl)
dump_remote_remove ==
    /\ pc = "r_prune"
    /\ IF drop_list = <<>>
       THEN /\ pc' = "r_close"
            /\ hist' = [hist EXCEPT !.pruning.remote = "ok"]
            /\ UNCHANGED <<drop_list, remote_dir, fresh>>
       ELSE LET fl == PopTarget(drop_list)
                h == [Did(hist, "remote", "remove") EXCEPT !.tried.remote = @ \cup {fl}]
            IN /\ drop_list' = PopRest(drop_list)
               /\ \/ /\ fl \in remote_dir
                     /\ remote_dir' = remote_dir \ {fl}
                     /\ fresh' = [fresh EXCEPT !.remote = @ \ {fl}]
                     /\ hist' = h
                     /\ UNCHANGED pc
                  \/ /\ Raise
                     /\ hist' = [h EXCEPT !.pruning.remote = "failed",
                                          !.fault = @ \/ fl \in remote_dir]
                     /\ UNCHANGED <<remote_dir, fresh>>
    /\ UNCHANGED <<config, today, dump, local_dir, session, mf, prev_drop>>

\* sftp.close(); client.close(); then print("Backups Complete")
dump_remote_close ==
    /\ pc = "r_close"
    /\ session' = "closed"
    /\ pc' = "done"
    /\ UNCHANGED <<config, today, dump, local_dir, remote_dir, fresh, drop_list,
                   hist, mf, prev_drop>>

Init ==
    /\ databases \in DatabaseChoices
    /\ backup_counts \in Policies
    /\ skip_local \in {"unset", "true", "false"}
    /\ skip_remote \in BOOLEAN
    /\ today \in RunDays
    /\ pc = "read_db"
    /\ dump = "none"
    /\ local_dir \in SeedDirs
    /\ remote_dir \in RemoteSeedDirs
    /\ fresh = NoSets
    /\ drop_list = <<>>
    /\ session = "none"
    /\ hist = HistInit
    /\ mf = "off"
    /\ prev_drop = <<>>

Next ==
    \/ read_db
    \/ dump_local_enter
    \/ \E tier \in {DAILY, WEEKLY, MONTHLY} : dump_local_write(tier)
    \/ dump_local_list
    \/ dump_local_remove
    \/ dump_remote_enter
    \/ dump_remote_connect
    \/ \E tier \in {DAILY, WEEKLY, MONTHLY} : dump_remote_put(tier)
    \/ dump_remote_list
    \/ dump_remote_remove
    \/ dump_remote_close

Spec == Init /\ [][Next]_vars

(***************************************************************************)
(* The program invoked a second time on the same day with the same         *)
(* configuration, after an invocation that ran to "Backups Complete"       *)
(***************************************************************************)

\* --databases "DAILY": a database that has the name of a tier
DatabaseDAILY == DAILY

RerunSeedDirs ==
    { {},
      {OldAB(DAILY, 180)},
      {TierFile(WEEKLY, DatabaseDAILY, 175)} }

InitRerun ==
    /\ databases \in {<<"b", " ", "a">>, DatabaseDAILY}
    /\ backup_counts \in Policies
    /\ skip_local = "false"
    /\ skip_remote \in BOOLEAN
    /\ today \in {181, 245}
    /\ pc = "read_db"
    /\ dump = "none"
    /\ local_dir \in RerunSeedDirs
    /\ remote_dir \in RerunSeedDirs
    /\ fresh = NoSets
    /\ drop_list = <<>>
    /\ session = "none"
    /\ hist = HistInit
    /\ mf = "off"
    /\ prev_drop = <<>>

\* A new process: a new db_bkp object over the directories as they are.
main_again ==
    /\ pc = "done"
    /\ hist.run = 1
    /\ pc' = "read_db"
    /\ dump' = "none"
    /\ fresh' = NoSets
    /\ drop_list' = <<>>
    /\ session' = "none"
    /\ hist' = [HistInit EXCEPT !.run = 2,
                                !.first = [local |-> local_dir, remote |-> remote_dir]]
    /\ UNCHANGED <<config, today, local_dir, remote_dir, mf, prev_drop>>

NextRerun == Next \/ main_again

SpecRerun == InitRerun /\ [][NextRerun]_vars



(***************************************************************************)
(* manage_files on its own: the retention computation applied to a listing *)
(* and then to the same listing without the names of its drop list         *)
(***************************************************************************)

BadTier == <<"X">> \o DAILY \o <<"_", "a", "-", "b", "_">> \o StrfDate(178) \o SQL
BadDate == DAILY \o <<"_", "a", "-", "b", "_", "z", "z">>

\* The names a listing is drawn from: three days of DAILY, a WEEKLY and a
\* MONTHLY of the group a-b, a DAILY of the group b, a DAILY of a database
\* called WEEKLY, and names that are no artifact's: one field, four fields
\* (the database m_d), an unknown tier and something that is no date.
ListingNames ==
    { OldAB(DAILY, 179), OldAB(DAILY, 180), OldAB(DAILY, 181),
      OldAB(WEEKLY, 175), OldAB(MONTHLY, 153),
      OldB(DAILY, 180),
      TierFile(DAILY, WEEKLY, 180),
      Notes, TierFile(DAILY, <<"m", "_", "d">>, 180), BadTier, BadDate }

Listings == {l \in SUBSET ListingNames : Cardinality(l) <= MaxLen}

InitRetention ==
    /\ local_dir \in Listings
    /\ backup_counts \in Policies
    /\ mf = "call"
    /\ drop_list = <<>>
    /\ prev_drop = <<>>
    /\ databases = <<"a">>
    /\ skip_local = "false"
    /\ skip_remote = TRUE
    /\ today = 181
    /\ pc = "none"
    /\ dump = "none"
    /\ remote_dir = {}
    /\ fresh = NoSets
    /\ session = "none"
    /\ hist = HistInit

\* self.manage_files(os.listdir(self._dir_local))
ManageFilesCall ==
    /\ mf = "call"
    /\ \E file_list \in ListDir(local_dir) : \E yOrder \in GroupOrders(file_list) :
          \E r \in {manage_files(file_list, yOrder, backup_counts)} :
             /\ drop_list' = r.drop
             /\ mf' = IF r.raised THEN "raised" ELSE "returned"
    /\ UNCHANGED <<config, today, pc, dump, local_dir, remote_dir, fresh, session, hist,
                   prev_drop>>

\* The names of the drop list taken out of the listing, and
\* self.manage_files(os.listdir(self._dir_local),debug) on what is left.
ManageFilesAgain ==
    /\ mf = "returned"
    /\ prev_drop' = drop_list
    /\ local_dir' = local_dir \ Range(drop_list)
    /\ \E file_list \in ListDir(local_dir') : \E yOrder \in GroupOrders(file_list) :
          \E r \in {manage_files(file_list, yOrder, backup_counts)} :
             /\ drop_list' = r.drop
             /\ mf' = IF r.raised THEN "raised2" ELSE "returned2"
    /\ UNCHANGED <<config, today, pc, dump, remote_dir, fresh, session, hist>>

NextRetention == ManageFilesCall \/ ManageFilesAgain

SpecRetention == InitRetention /\ [][NextRetention]_vars

\* manage_files called once, on listings of two days of DAILY of the group
\* a-b, a DAILY of the group b, a DAILY of a database called WEEKLY and a DAILY
\* of the database m_d, taken in every order.
OrderNames ==
    { OldAB(DAILY, 179), OldAB(DAILY, 180),
      OldB(DAILY, 180),
      TierFile(DAILY, WEEKLY, 180),
      TierFile(DAILY, <<"m", "_", "d">>, 180) }

OrderListings == {l \in SUBSET OrderNames : Cardinality(l) <= MaxLen}

InitOrder ==
    /\ local_dir \in OrderListings
    /\ backup_counts \in Policies
    /\ mf = "call"
    /\ drop_list = <<>>
    /\ prev_drop = <<>>
    /\ databases = <<"a">>
    /\ skip_local = "false"
    /\ skip_remote = TRUE
    /\ today = 181
    /\ pc = "none"
    /\ dump = "none"
    /\ remote_dir = {}
    /\ fresh = NoSets
    /\ session = "none"
    /\ hist = HistInit

NextOrder == ManageFilesCall

SpecOrder == InitOrder /\ [][NextOrder]_vars



(***************************************************************************)
(* What the properties speak of: artifact names as the naming scheme       *)
(* TIER_GROUP_DATE defines them                                            *)
(***************************************************************************)

Tiers == {DAILY, WEEKLY, MONTHLY}

NameFields(name) == StrSplit(name, "_")

IsDigit(c) == c \in {"0", "1", "2", "3", "4", "5", "6", "7", "8", "9"}
DigitVal(c) == Ord(c) - Ord("0")
Num2(z, i) == 10 * DigitVal(z[i]) + DigitVal(z[i + 1])

\* YYYY-MM-DD.sql with a month and a day of that month
IsDateField(z) ==
    /\ Len(z) = 14
    /\ SubSeq(z, 11, 14) = SQL
    /\ z[5] = "-" /\ z[8] = "-"
    /\ \A i \in {1, 2, 3, 4, 6, 7, 9, 10} : IsDigit(z[i])
    /\ Num2(z, 6) \in 1..12
    /\ Num2(z, 9) >= 1
    /\ Num2(z, 9) <= MonthLengths[Num2(z, 6)]

DateKey(z) == 1000000 * Num2(z, 1) + 10000 * Num2(z, 3) + 100 * Num2(z, 6) + Num2(z, 9)

\* A name that decodes: exactly three fields, a tier, a date.
WellFormed(name) ==
    /\ Len(NameFields(name)) = 3
    /\ NameFields(name)[1] \in Tiers
    /\ IsDateField(NameFields(name)[3])

\* A name the naming scheme produces for some databases: a tier, then the
\* group (which holds '_' when a database name does), then a date.
IsArtifact(name) ==
    /\ Len(NameFields(name)) >= 3
    /\ NameFields(name)[1] \in Tiers
    /\ IsDateField(NameFields(name)[Len(NameFields(name))])

TierOf(name) == NameFields(name)[1]
DateOf(name) == NameFields(name)[Len(NameFields(name))]
GroupOf(name) == StrJoin(SubSeq(NameFields(name), 2, Len(NameFields(name)) - 1), "_")

CountOf(counts, tier) ==
    IF tier = DAILY THEN counts.DLY_BACKUP_COUNT
    ELSE IF tier = WEEKLY THEN counts.WLY_BACKUP_COUNT
    ELSE counts.MLY_BACKUP_COUNT

NonNegative(counts) == \A tier \in Tiers : CountOf(counts, tier) >= 0

\* The artifacts of one group and tier among the names of a directory.
Bucket(dir, group, tier) ==
    {name \in dir : IsArtifact(name) /\ GroupOf(name) = group /\ TierOf(name) = tier}

BucketOf(dir, name) == Bucket(dir, GroupOf(name), TierOf(name))

Older(a, b) ==
    \/ DateKey(DateOf(a)) < DateKey(DateOf(b))
    \/ DateKey(DateOf(a)) = DateKey(DateOf(b)) /\ StrLess(a, b)

\* The k oldest names of a bucket.
Oldest(bucket, k) == {name \in bucket : Cardinality({b \in bucket : Older(b, name)}) < k}

Excess(bucket, n) == IF Cardinality(bucket) > n THEN Cardinality(bucket) - n ELSE 0

Occurrences(list, names) == Cardinality({i \in 1..Len(list) : list[i] \in names})

(***************************************************************************)
(* Properties of the retention computation (SpecRetention)                 *)
(***************************************************************************)

\* C1: for a listing of well-formed names and counts >= 0, the drop list holds
\* for every (group, tier) bucket of size S exactly max(0, S - N) entries of
\* the bucket, and they are its S - N oldest names.
C1_DropsExactlyTheOldest ==
    (mf = "returned" /\ NonNegative(backup_counts) /\ \A name \in local_dir : WellFormed(name))
    => \A name \in local_dir :
          LET bucket == BucketOf(local_dir, name)
              k == Excess(bucket, CountOf(backup_counts, TierOf(name)))
          IN /\ Occurrences(drop_list, bucket) = k
             /\ Range(drop_list) \cap bucket = Oldest(bucket, k)

\* C3: with malformed names in the listing the computation does not abort, no
\* malformed name is in the drop list, and the drop list holds the same names
\* as the one computed without the malformed names.
C3_MalformedNamesIgnored ==
    (/\ mf \in {"returned", "raised"}
     /\ NonNegative(backup_counts)
     /\ \E name \in local_dir : WellFormed(name)
     /\ \E name \in local_dir : ~WellFormed(name))
    => /\ mf = "returned"
       /\ \A name \in Range(drop_list) : WellFormed(name)
       /\ \A file_list \in ListDir({name \in local_dir : WellFormed(name)}) :
             \A yOrder \in GroupOrders(file_list) :
                Range(manage_files(file_list, yOrder, backup_counts).drop) = Range(drop_list)

\* C4: the computation applied to the listing without the names of its drop
\* list gives an empty drop list.
C4_SecondPassDropsNothing == mf = "returned2" => drop_list = <<>>

\* C5: for a listing of artifacts, the names of the drop list that are
\* artifacts of one group are the names dropped when the listing holds that
\* group's artifacts alone.
C5_GroupsIndependent ==
    (/\ mf = "returned"
     /\ NonNegative(backup_counts)
     /\ \A name \in local_dir : IsArtifact(name))
    => \A name \in {n \in local_dir : IsArtifact(n)} :
          LET own == {n \in local_dir : IsArtifact(n) /\ GroupOf(n) = GroupOf(name)}
          IN \A file_list \in ListDir(own) : \A yOrder \in GroupOrders(file_list) :
                /\ ~manage_files(file_list, yOrder, backup_counts).raised
                /\ Range(manage_files(file_list, yOrder, backup_counts).drop)
                      = Range(drop_list) \cap own



(***************************************************************************)
(* Properties of a run of main (Spec)                                      *)
(***************************************************************************)

Backends == {"local", "remote"}

DirOf(backend) == IF backend = "local" THEN local_dir ELSE remote_dir

\* The spec's states of a cycle, from where main is.
Ended == pc \in {"done", "failed"}

\* C2: when the pruning of a backend has completed with every delete
\* succeeding, the backend holds for every group and tier at most the tier's
\* count of artifacts (none at all when the count is 0).
C2_RetentionCapAfterPruning ==
    \A backend \in Backends :
       hist.pruning[backend] = "ok"
       => \A name \in DirOf(backend) :
             IsArtifact(name)
             => Cardinality(BucketOf(DirOf(backend), name))
                   <= CountOf(backup_counts, TierOf(name))

\* A completed local pruning that deleted an artifact written in this run:
\* the count of its tier is 0 and the directory holds no DAILY of the group.
C2_Witness ==
    /\ hist.pruning.local = "ok"
    /\ backup_counts.DLY_BACKUP_COUNT = 0
    /\ TierFile(DAILY, databases, today) \in hist.written.local \ local_dir
    /\ hist.tried.local # {}

\* C6: after a failed dump (error output or a non-zero exit status) the run
\* is in FAILED and no operation of a backend has been attempted.
C6_DumpFailureStopsTheRun ==
    dump \in {"stderr", "status"} => (pc = "failed" /\ hist.ops = {})

\* The names staging is to write today: DAILY, WEEKLY on the weekly day,
\* MONTHLY on the first of the month.
StagedNames ==
    {TierFile(tier, databases, today) : tier \in {t \in Tiers : LocalWrites(t, today)}}

PlainDay == ~MakeWeekly(today) /\ ~MakeMonthly(today)

\* C7: on each backend a staging that ended well wrote exactly the names of
\* the day, each with this run's dump; and on a day that is neither the weekly
\* nor the monthly day, staging does not fail unless an operation of the
\* backend fails.
C7_StagingWritesTheDaysTiers ==
    \A backend \in Backends :
       /\ hist.staged[backend] = "ok"
          => (hist.written[backend] = StagedNames /\ hist.stale = {})
       /\ (PlainDay /\ hist.staged[backend] = "failed") => hist.fault

\* C8: a run whose dump succeeded and in which no operation of a backend
\* failed does not end in FAILED, whatever the day and the counts >= 0.
C8_NoFaultNoFailure ==
    (pc = "failed" /\ NonNegative(backup_counts)) => (dump # "ok" \/ hist.fault)

\* C9: when a delete of the pruning of a backend has failed and the run has
\* ended, a delete has been attempted for every name of the drop list (the
\* drop lists taken are those that hold names of the listing only).
C9_EveryDropAttempted ==
    \A backend \in Backends :
       (/\ Ended
        /\ <<backend, "remove">> \in hist.ops
        /\ hist.pruning[backend] = "failed"
        /\ \A name \in hist.drop_set[backend] : WellFormed(name))
       => hist.tried[backend] = hist.drop_set[backend]

\* C10: when the dump succeeded and the local backend's part of the run has
\* failed, the remote backend's part is attempted all the same (unless the
\* remote leg is skipped).
C10_RemoteRunsAfterLocalFailure ==
    (/\ Ended
     /\ dump = "ok"
     /\ ~skip_remote
     /\ "failed" \in {hist.staged.local, hist.pruning.local})
    => <<"remote", "connect">> \in hist.ops

\* C11: no run ends with the SSH session still open.
C11_SessionClosedAtEnd == Ended => session # "open"

\* C13: for an empty listing the retention computation returns, with an
\* empty drop list.
C13_EmptyListingDropsNothing ==
    (mf \in {"returned", "raised"} /\ local_dir = {} /\ NonNegative(backup_counts))
    => (mf = "returned" /\ drop_list = <<>>)

\* C15: when staging succeeded on a backend and the listing or a delete of
\* that backend then failed, the run ends in DONE all the same.
C15_PruningFailureIsNotFatal ==
    \A backend \in Backends :
       (/\ Ended
        /\ hist.fault
        /\ hist.staged[backend] = "ok"
        /\ hist.pruning[backend] = "failed"
        /\ hist.staged.remote # "failed")
       => pc = "done"

\* C16: with a negative count no operation of a backend is attempted: nothing
\* is staged, listed or deleted.
C16_NegativeCountRejected == ~NonNegative(backup_counts) => hist.ops = {}

\* C17: for a listing of well-formed names, no name is in the drop list twice
\* and every dropped name is of a bucket (its group, the tier of its first
\* field) that holds more names than the tier's count.
C17_OneTierPerArtifact ==
    (/\ mf = "returned"
     /\ NonNegative(backup_counts)
     /\ \A name \in local_dir : WellFormed(name))
    => /\ Cardinality(Range(drop_list)) = Len(drop_list)
       /\ \A name \in Range(drop_list) \cap local_dir :
             Cardinality(BucketOf(local_dir, name)) > CountOf(backup_counts, TierOf(name))

\* C19: every name of the drop list is a name of the listing.
C19_DropsOnlyListedNames == mf = "returned" => Range(drop_list) \subseteq local_dir

\* C12: every name dump_local has written splits on '_', the way manage_files
\* splits it, into the tier, the group of the configured databases and the
\* date of the day (with the file's .sql ending).
C12_NameRoundTrip ==
    \A tier \in Tiers :
       TierFile(tier, databases, today) \in hist.written.local
       => StrSplit(TierFile(tier, databases, today), "_")
             = <<tier, GroupKey(databases), StrfDate(today) \o SQL>>

\* C14: the remote leg does not depend on what the local leg wrote or
\* deleted: after a local leg that ran to its end, the upload of today's DAILY
\* artifact happens unless an operation fails by itself.
C14_RemoteIndependentOfLocal ==
    (/\ skip_local = "false"
     /\ <<"remote", "put">> \in hist.ops
     /\ ~hist.fault)
    => TierFile(DAILY, databases, today) \in hist.written.remote

\* The call on the listing in ascending order, its groups taken in ascending
\* order.
AscendingCall(dir, counts) ==
    manage_files(Ascending(dir), Ascending(GroupSet(Ascending(dir))), counts)

\* C18: whatever the order of the listing and the order in which the groups
\* are taken, the retention computation ends the same way (returns or raises)
\* and, when it returns, drops the same set of names: after every call, the
\* outcome is that of the call on the listing in ascending order.
C18_DropSetDeterministic ==
    mf \in {"returned", "raised"}
    => \E r \in {AscendingCall(local_dir, backup_counts)} :
          /\ r.raised <=> mf = "raised"
          /\ ~r.raised => Range(r.drop) = Range(drop_list)

\* A returned call on a listing of two groups, one of them with two names of
\* a tier of which one is dropped and one kept.
C18_Witness ==
    /\ mf = "returned"
    /\ \E a, b \in local_dir :
          /\ WellFormed(a) /\ WellFormed(b)
          /\ GroupOf(a) # GroupOf(b)
    /\ \E a, b \in local_dir :
          /\ a # b /\ BucketOf(local_dir, a) = BucketOf(local_dir, b)
          /\ WellFormed(a) /\ WellFormed(b)
          /\ a \in Range(drop_list) /\ b \notin Range(drop_list)

\* C20: a second complete run on the same day leaves each backend with the
\* names the first complete run left.
C20_RerunLeavesSameNames ==
    (hist.run = 2 /\ pc = "done")
    => (local_dir = hist.first.local /\ remote_dir = hist.first.remote)

====
